---- MODULE Spec2Model ----
(***************************************************************************)
(* Model of jylitalo/TwitterBot (src/files/twitbot.py): the tweet          *)
(* normalisation, link resolution and de-duplication pipeline, the report  *)
(* rendering and the per-topic processes of make_reports.                  *)
(*                                                                         *)
(* Text is modelled as a sequence of one-character strings, so that the    *)
(* Python string operations (replace, split, strip, startswith, ...) are   *)
(* computed character by character as the interpreter computes them.       *)
(***************************************************************************)
EXTENDS Integers, Sequences, FiniteSets, TLC

VARIABLES
    \* --- TwitterBot._tweets / TweetFilter (one source) ---
    started,      \* TwitterBot._started
    remove,       \* TweetFilter.remove: [text, tweets, query_string]
    net,          \* the network: what a HEAD request to each URL answers
    tweets,       \* the list GetUserTimeline returned
    idx,          \* how many tweets the for loop of _tweets has consumed
    text,         \* the local `text` of _tweets (last clean_tweet result)
    unique,       \* the last value returned by is_unique
    uniq_text,    \* TweetFilter._uniq_text
    duplicates,   \* TweetFilter._duplicates
    report,       \* the local `report` of _tweets
    pc,           \* position in _tweets
    \* --- extend_url ---
    eu,           \* the frame of extend_url: [word, url, i, pc]
    \* --- make_reports and the per-topic processes ---
    ppc,          \* position of make_reports in the parent process
    ptopic,       \* how many topics the start loop has gone through
    pids,         \* the local `pids` of make_reports (topics, in order)
    pjoin,        \* how many of pids the join loop has gone through
    proc,         \* per topic, the state of its Process object
    cpc,          \* per topic, the position of _handle_topic in the child
    creport,      \* per topic, the local `report` of _handle_topic
    cmsg,         \* per topic, the local `msg` of _handle_topic
    sends         \* per topic, the calls of _send_email: <<outcome, text>>

tvars == <<started, remove, net, tweets, idx, text, unique, uniq_text,
           duplicates, report, pc>>

rvars == <<ppc, ptopic, pids, pjoin, proc, cpc, creport, cmsg, sends>>

vars == <<tvars, eu, rvars>>

(***************************************************************************)
(* Bounds of the model and constants of the program.                       *)
(***************************************************************************)
MaxFeed == 3          \* longest feed of the general _tweets specification
MaxAge == 2           \* the start time is Horizon + MaxAge
MaxCalls == 4         \* is_unique calls in the TweetFilter specification
MaxFault == 3         \* hops at which a failing request is injected
ChainLen == 12        \* redirects of the long synthetic chain
Horizon == 86400
HopLimit == 10
max_items == 100

(***************************************************************************)
(* Python str operations on sequences of characters.                       *)
(***************************************************************************)
Whitespace == {" ", "\t", "\n", "\r", "\f"}

str_startswith(s, p) == Len(p) <= Len(s) /\ SubSeq(s, 1, Len(p)) = p

str_endswith(s, p) ==
    Len(p) <= Len(s) /\ SubSeq(s, Len(s) - Len(p) + 1, Len(s)) = p

\* 1-based index of the first occurrence of sub in s, 0 when there is none
\* (Python's find returns that index minus one).
str_find(s, sub) ==
    LET hits == {i \in 1..(Len(s) - Len(sub) + 1) :
                    SubSeq(s, i, i + Len(sub) - 1) = sub}
    IN IF hits = {} THEN 0
       ELSE CHOOSE i \in hits : \A j \in hits : i <= j

\* `sub in s`
str_contains(s, sub) == sub = <<>> \/ str_find(s, sub) # 0

\* s.replace(old, new): the occurrences of old are found left to right and
\* do not overlap; an empty old matches before every character and at the end.
RECURSIVE str_replace(_, _, _)
str_replace(s, old, new) ==
    IF old = <<>>
    THEN LET p == Len(new) + 1
         IN [j \in 1..(Len(s) * p + Len(new)) |->
                IF ((j - 1) % p) < Len(new) THEN new[((j - 1) % p) + 1]
                ELSE s[((j - 1) \div p) + 1]]
    ELSE LET i == str_find(s, old)
         IN IF i = 0 THEN s
            ELSE SubSeq(s, 1, i - 1) \o new
                 \o str_replace(SubSeq(s, i + Len(old), Len(s)), old, new)

RECURSIVE str_split(_, _)
str_split(s, sep) ==
    LET i == str_find(s, sep)
    IN IF i = 0 THEN <<s>>
       ELSE <<SubSeq(s, 1, i - 1)>>
            \o str_split(SubSeq(s, i + Len(sep), Len(s)), sep)

RECURSIVE str_join(_, _)
str_join(sep, words) ==
    IF words = <<>> THEN <<>>
    ELSE IF Len(words) = 1 THEN words[1]
    ELSE words[1] \o sep \o str_join(sep, Tail(words))

RECURSIVE str_lstrip(_)
str_lstrip(s) ==
    IF s # <<>> /\ Head(s) \in Whitespace THEN str_lstrip(Tail(s)) ELSE s

RECURSIVE str_rstrip(_)
str_rstrip(s) ==
    IF s # <<>> /\ s[Len(s)] \in Whitespace
    THEN str_rstrip(SubSeq(s, 1, Len(s) - 1)) ELSE s

str_strip(s) == str_rstrip(str_lstrip(s))

(***************************************************************************)
(* is_http_link and extend_url.                                            *)
(***************************************************************************)
Http == <<"h", "t", "t", "p", ":", "/", "/">>
Https == <<"h", "t", "t", "p", "s", ":", "/", "/">>

is_http_link(url) == str_startswith(url, Http) \/ str_startswith(url, Https)

\* What requests.head(url, allow_redirects=False, timeout=5) does: it returns
\* a response with or without a Location header, or it raises.
NoLocation == [outcome |-> "response", has_location |-> FALSE, location |-> <<>>]
Redirect(to) == [outcome |-> "response", has_location |-> TRUE, location |-> to]
Raises(exc) == [outcome |-> exc, has_location |-> FALSE, location |-> <<>>]

requests_head(n, url) == IF url \in DOMAIN n THEN n[url] ELSE NoLocation

\* except_clause without the final `except Exception`: an exception that is
\* neither a ConnectionError nor a ReadTimeout leaves extend_url.
except_clause_no_catch_all(exc) ==
    CASE exc \in {"ConnectionError", "ConnectTimeout"} -> "except_ConnectionError"
      [] exc = "ReadTimeout" -> "except_ReadTimeout"
      [] OTHER -> "raised"

\* The except clause of extend_url that catches an exception raised in the
\* try block (requests' ConnectTimeout is a ConnectionError; every other
\* exception requests raises derives from Exception).
except_clause(exc) ==
    CASE exc \in {"ConnectionError", "ConnectTimeout"} -> "except_ConnectionError"
      [] exc = "ReadTimeout" -> "except_ReadTimeout"
      [] OTHER -> "except_Exception"

\* extend_url_step with the loop bound off by one (range(11)).
extend_url_step_off_by_one(f, n) ==
    CASE f.pc = "loop" ->
            IF f.i > HopLimit THEN [f EXCEPT !.pc = "return"]
            ELSE LET r == requests_head(n, f.url)
                 IN IF r.outcome # "response"
                    THEN [f EXCEPT !.i = f.i + 1,
                                   !.pc = except_clause(r.outcome)]
                    ELSE IF r.has_location /\ is_http_link(r.location)
                         THEN [f EXCEPT !.i = f.i + 1, !.url = r.location]
                         ELSE [f EXCEPT !.i = f.i + 1, !.pc = "return"]
      [] f.pc \in {"except_ConnectionError", "except_ReadTimeout",
                   "except_Exception"} -> [f EXCEPT !.pc = "return"]
      [] f.pc = "return" -> [f EXCEPT !.pc = "returned"]
      [] OTHER -> f

\* One step of extend_url on its frame f = [word, url, i, pc]: one iteration
\* of `for _ in range(10)`, one except clause, or the return.
extend_url_step(f, n) ==
    CASE f.pc = "loop" ->
            IF f.i >= HopLimit THEN [f EXCEPT !.pc = "return"]
            ELSE LET r == requests_head(n, f.url)
                 IN IF r.outcome # "response"
                    THEN [f EXCEPT !.i = f.i + 1,
                                   !.pc = except_clause(r.outcome)]
                    ELSE IF r.has_location /\ is_http_link(r.location)
                         THEN [f EXCEPT !.i = f.i + 1, !.url = r.location]
                         ELSE [f EXCEPT !.i = f.i + 1, !.pc = "return"]
      [] f.pc \in {"except_ConnectionError", "except_ReadTimeout",
                   "except_Exception"} -> [f EXCEPT !.pc = "return"]
      [] f.pc = "return" -> [f EXCEPT !.pc = "returned"]
      [] OTHER -> f

extend_url_frame(word) == [word |-> word, url |-> word, i |-> 0, pc |-> "loop"]

RECURSIVE extend_url_run(_, _)
extend_url_run(f, n) ==
    IF f.pc \in {"returned", "raised"} THEN f
    ELSE extend_url_run(extend_url_step(f, n), n)

extend_url(word, n) == extend_url_run(extend_url_frame(word), n).url

(***************************************************************************)
(* is_status_media and TweetFilter.clean_tweet.                            *)
(***************************************************************************)
twitter_com == Https \o <<"t", "w", "i", "t", "t", "e", "r", ".", "c", "o", "m", "/">>
status_ == <<"s", "t", "a", "t", "u", "s", "/">>
photo == <<"p", "h", "o", "t", "o">>
video == <<"v", "i", "d", "e", "o">>

\* "status/%s/%s/1" % (id_str, media)
status_media_suffix(id_str, media) ==
    status_ \o id_str \o <<"/">> \o media \o <<"/", "1">>

is_status_media(tweet, word, url) ==
    IF ~str_endswith(tweet.full_text, word) \/ ~str_startswith(url, twitter_com)
    THEN FALSE
    ELSE \E media \in {photo, video} :
            str_endswith(url, status_media_suffix(tweet.id_str, media))

\* text.replace('\n', '').replace(self.remove['text'], '')
strip_text(full_text, rm) ==
    str_replace(str_replace(full_text, <<"\n">>, <<>>), rm.text, <<>>)

\* for spam in self.remove['tweets']: if spam in text: return ''
is_spam(t, rm) == \E spam \in rm.tweets : str_contains(t, spam)

\* url[:url.find('?')] when query strings are removed and url has one
strip_query_string(url, rm) ==
    IF rm.query_string /\ str_contains(url, <<"?">>)
    THEN SubSeq(url, 1, str_find(url, <<"?">>) - 1)
    ELSE url

\* clean_word without the has_links test: every link judged embedded media
\* is dropped, the first link of the post included.
clean_word_no_first_link(acc, tweet, word, rm, n) ==
    IF is_http_link(word)
    THEN LET url == extend_url(word, n)
         IN IF is_status_media(tweet, word, url)
            THEN acc
            ELSE [ret |-> Append(acc.ret, strip_query_string(url, rm)),
                  has_links |-> TRUE]
    ELSE IF word # <<>>
         THEN [acc EXCEPT !.ret = Append(acc.ret, word)]
         ELSE acc

\* One iteration of `for word in text.split(' ')` on acc = [ret, has_links].
clean_word(acc, tweet, word, rm, n) ==
    IF is_http_link(word)
    THEN LET url == extend_url(word, n)
         IN IF acc.has_links /\ is_status_media(tweet, word, url)
            THEN acc
            ELSE [ret |-> Append(acc.ret, strip_query_string(url, rm)),
                  has_links |-> TRUE]
    ELSE IF word # <<>>
         THEN [acc EXCEPT !.ret = Append(acc.ret, word)]
         ELSE acc

RECURSIVE clean_words(_, _, _, _, _)
clean_words(acc, tweet, words, rm, n) ==
    IF words = <<>> THEN acc
    ELSE clean_words(clean_word(acc, tweet, Head(words), rm, n),
                     tweet, Tail(words), rm, n)

clean_start == [ret |-> <<>>, has_links |-> FALSE]

\* clean_tweet with the window test written `<=`: a post created exactly at
\* the cutoff is discarded.
clean_tweet_le(tweet, rm, ts, n) ==
    IF tweet.created_at_in_seconds <= ts THEN <<>>
    ELSE LET t == strip_text(tweet.full_text, rm)
         IN IF is_spam(t, rm) THEN <<>>
            ELSE str_join(<<" ">>,
                          clean_words(clean_start, tweet,
                                      str_split(t, <<" ">>), rm, n).ret)

\* clean_tweet without the time window test.
clean_tweet_no_window(tweet, rm, ts, n) ==
    LET t == strip_text(tweet.full_text, rm)
    IN IF is_spam(t, rm) THEN <<>>
       ELSE str_join(<<" ">>,
                     clean_words(clean_start, tweet,
                                 str_split(t, <<" ">>), rm, n).ret)

clean_tweet(tweet, rm, timespan, n) ==
    IF tweet.created_at_in_seconds < timespan THEN <<>>
    ELSE LET t == strip_text(tweet.full_text, rm)
         IN IF is_spam(t, rm) THEN <<>>
            ELSE str_join(<<" ">>,
                          clean_words(clean_start, tweet,
                                      str_split(t, <<" ">>), rm, n).ret)

(***************************************************************************)
(* TweetFilter.is_unique, uniques, duplicates.                             *)
(***************************************************************************)
\* canonical dropping every trailing '.' (text.rstrip('.')) instead of one.
canonical_all_dots(t) ==
    LET s == str_strip(t)
        keep == { k \in 0 .. Len(s) : k = 0 \/ s[k] # "." }
        n == CHOOSE k \in keep : \A j \in keep : j <= k
    IN SubSeq(s, 1, n)

\* text.strip(), then one trailing '.' dropped
canonical(t) ==
    LET s == str_strip(t)
    IN IF str_endswith(s, <<".">>) THEN SubSeq(s, 1, Len(s) - 1) ELSE s

\* is_unique without the `if text:` guard: an empty key is stored like any
\* other key.
is_unique_unguarded(u, d, t) ==
    LET key == canonical(t)
    IN IF key \in u
       THEN [uniq_text |-> u, duplicates |-> d + 1, ret |-> FALSE]
       ELSE [uniq_text |-> u \cup {key}, duplicates |-> d, ret |-> TRUE]

\* is_unique storing the text as given instead of its canonical key (as the
\* older _get_report does with uniq_text.add(full_text)).
is_unique_raw(u, d, t) ==
    LET key == canonical(t)
    IN IF key # <<>>
       THEN IF key \in u
            THEN [uniq_text |-> u, duplicates |-> d + 1, ret |-> FALSE]
            ELSE [uniq_text |-> u \cup {t}, duplicates |-> d, ret |-> TRUE]
       ELSE [uniq_text |-> u, duplicates |-> d, ret |-> FALSE]

\* is_unique counting a text with an empty key as a duplicate.
is_unique_empty_duplicate(u, d, t) ==
    LET key == canonical(t)
    IN IF key \in u \/ key = <<>>
       THEN [uniq_text |-> u, duplicates |-> d + 1, ret |-> FALSE]
       ELSE [uniq_text |-> u \cup {key}, duplicates |-> d, ret |-> TRUE]

\* is_unique on the filter state (u, d): the new state and the value returned
is_unique(u, d, t) ==
    LET key == canonical(t)
    IN IF key # <<>>
       THEN IF key \in u
            THEN [uniq_text |-> u, duplicates |-> d + 1, ret |-> FALSE]
            ELSE [uniq_text |-> u \cup {key}, duplicates |-> d, ret |-> TRUE]
       ELSE [uniq_text |-> u, duplicates |-> d, ret |-> FALSE]

uniques == Cardinality(uniq_text)

\* self._started - 86400
timespan == started - Horizon

(***************************************************************************)
(* TwitterBot._twitter_user_summary: the lines of the summary, each a      *)
(* tuple of the fixed wording and the numbers printed into it.             *)
(***************************************************************************)
twitter_user_summary(found, skipped) ==
    LET total_items == found + skipped
        maxmsg == IF max_items = total_items
                  THEN <<<<"Max number of tweets fetched", total_items>>>>
                  ELSE <<>>
        summary == IF skipped # 0
                   THEN <<"Summary", total_items, found, skipped>>
                   ELSE <<"Summary", total_items>>
    IN maxmsg \o <<summary>>

(***************************************************************************)
(* TwitterBot._tweets for one source, one loop iteration per step.         *)
(***************************************************************************)
EuIdle == [word |-> <<>>, url |-> <<>>, i |-> 0, pc |-> "idle"]

\* tweets_step appending every non-empty text to the report, duplicates too.
tweets_step_append_all(st, tweet, rm, ts, n) ==
    LET cleaned == clean_tweet(tweet, rm, ts, n)
        r == is_unique(st.uniq_text, st.duplicates, cleaned)
    IN [report |-> IF cleaned # <<>>
                   THEN Append(st.report,
                               <<tweet.created_at_in_seconds, cleaned>>)
                   ELSE st.report,
        uniq_text |-> r.uniq_text,
        duplicates |-> r.duplicates,
        text |-> cleaned,
        unique |-> r.ret]

\* The body of `for tweet in tweets` on st = [report, uniq_text, duplicates]:
\* text = clean_tweet(tweet); if is_unique(text): report += [(created, text)]
tweets_step(st, tweet, rm, ts, n) ==
    LET cleaned == clean_tweet(tweet, rm, ts, n)
        r == is_unique(st.uniq_text, st.duplicates, cleaned)
    IN [report |-> IF r.ret
                   THEN Append(st.report,
                               <<tweet.created_at_in_seconds, cleaned>>)
                   ELSE st.report,
        uniq_text |-> r.uniq_text,
        duplicates |-> r.duplicates,
        text |-> cleaned,
        unique |-> r.ret]

\* report += [(tweet_filter.uniques(), tweet_filter.duplicates())]
tweets_summary(st) ==
    Append(st.report, <<Cardinality(st.uniq_text), st.duplicates>>)

\* The loop of _tweets with the early exit of the older generation's
\* _get_report: `if tweet_time < timespan: break`.
RECURSIVE tweets_fold_break(_, _, _, _, _)
tweets_fold_break(st, feed, rm, ts, n) ==
    IF feed = <<>> THEN st
    ELSE IF Head(feed).created_at_in_seconds < ts THEN st
    ELSE tweets_fold_break(tweets_step(st, Head(feed), rm, ts, n),
                           Tail(feed), rm, ts, n)

\* One iteration of the loop of _tweets.
TweetsLoop ==
    /\ pc = "loop"
    /\ idx < Len(tweets)
    /\ LET st == tweets_step([report |-> report, uniq_text |-> uniq_text,
                              duplicates |-> duplicates],
                             tweets[idx + 1], remove, timespan, net)
       IN /\ text' = st.text
          /\ unique' = st.unique
          /\ uniq_text' = st.uniq_text
          /\ duplicates' = st.duplicates
          /\ report' = st.report
    /\ idx' = idx + 1
    /\ UNCHANGED <<started, remove, net, tweets, pc, eu, rvars>>

\* The loop is over: the summary tuple is appended and _tweets returns.
TweetsReturn ==
    /\ pc = "loop"
    /\ idx = Len(tweets)
    /\ report' = tweets_summary([report |-> report, uniq_text |-> uniq_text,
                                 duplicates |-> duplicates])
    /\ pc' = "done"
    /\ UNCHANGED <<started, remove, net, tweets, idx, text, unique,
                   uniq_text, duplicates, eu, rvars>>

\* No make_reports is running.
RunIdle ==
    /\ ppc = "idle"
    /\ ptopic = 0
    /\ pids = <<>>
    /\ pjoin = 0
    /\ proc = <<>>
    /\ cpc = <<>>
    /\ creport = <<>>
    /\ cmsg = <<>>
    /\ sends = <<>>

\* The state of _tweets when GetUserTimeline has returned feed.
TweetsInit(feeds, removes, nets) ==
    /\ started = Horizon + MaxAge
    /\ remove \in removes
    /\ net \in nets
    /\ tweets \in feeds
    /\ idx = 0
    /\ text = <<>>
    /\ unique = FALSE
    /\ uniq_text = {}
    /\ duplicates = 0
    /\ report = <<>>
    /\ pc = "loop"
    /\ eu = EuIdle
    /\ RunIdle

(***************************************************************************)
(* Inputs: tweets, filter configurations and networks.                     *)
(***************************************************************************)
SeqsUpTo(S, n) == UNION {[1..k -> S] : k \in 0..n}

Tweet(ts, full_text) ==
    [created_at_in_seconds |-> ts, full_text |-> full_text,
     id_str |-> <<"1", "2", "3">>]

\* The options filters() returns for a topic without remove_* options, and
\* for one with remove_text, remove_tweets and remove_query_string set.
NoRemove == [text |-> <<>>, tweets |-> {}, query_string |-> FALSE]
SomeRemove == [text |-> <<"R", "T">>, tweets |-> {<<"a", "d">>},
               query_string |-> TRUE]

Cutoff == MaxAge      \* = timespan of every specification below
Old == Cutoff - 1
Edge == Cutoff
New == Cutoff + 1

ShortA == Http \o <<"t", ".", "c", "o", "/", "a">>
LongA == Https \o <<"e", ".", "c", "o", "m", "/", "p", "?", "x", "=", "1">>
ShortNet == (ShortA :> Redirect(LongA)) @@ (LongA :> NoLocation)

FeedTweets ==
    { Tweet(New, <<"A">>), Tweet(Edge, <<"A", ".">>), Tweet(Old, <<"A">>),
      Tweet(New, <<"B">>), Tweet(New, <<".">>), Tweet(New, <<"R", "T">>),
      Tweet(Edge, <<"a", "d", " ", "B">>),
      Tweet(New, <<"B", " ">> \o ShortA) }

(***************************************************************************)
(* Spec: _tweets on every feed of at most MaxFeed tweets.                   *)
(***************************************************************************)
Init == TweetsInit(SeqsUpTo(FeedTweets, MaxFeed), {NoRemove, SomeRemove},
                   {ShortNet})

Next == TweetsLoop \/ TweetsReturn

Spec == Init /\ [][Next]_vars

(***************************************************************************)
(* Properties of _tweets (Spec).                                           *)
(***************************************************************************)
\* The (timestamp, text) entries of the report: all of it while the loop
\* runs, all but the trailing summary tuple once _tweets has returned.
Entries == 1 .. (IF pc = "done" THEN Len(report) - 1 ELSE Len(report))

Summary == report[Len(report)]

InWindow(tweet) == tweet.created_at_in_seconds >= timespan

NotBanned(tweet) == ~is_spam(strip_text(tweet.full_text, remove), remove)

\* The normalized text of a tweet, the time window left aside.
Normalized(tweet) ==
    clean_tweet(tweet, remove, tweet.created_at_in_seconds - 1, net)

PassedFilters == {i \in 1..Len(tweets) : InWindow(tweets[i]) /\ NotBanned(tweets[i])}

PassedWithKey == {i \in PassedFilters : canonical(Normalized(tweets[i])) # <<>>}

\* C1 as claimed: once _tweets has returned, unique_count + duplicate_count of
\* the summary tuple is the number of posts of the feed that are inside the
\* time window and contain no banned phrase.
C1_CountsAllPassed ==
    pc = "done" => Summary[1] + Summary[2] = Cardinality(PassedFilters)

\* C1 amended: once _tweets has returned, unique_count + duplicate_count is
\* the number of posts inside the time window, without banned phrase, whose
\* normalized text has a non-empty canonical key.
C1_CountsPassedWithKey ==
    pc = "done" => Summary[1] + Summary[2] = Cardinality(PassedWithKey)

C1_Witness ==
    /\ pc = "done"
    /\ Summary[1] >= 1
    /\ Summary[2] >= 1
    /\ Cardinality(PassedWithKey) < Cardinality(PassedFilters)

\* C3: no report entry carries a timestamp before now - horizon, a post older
\* than the cutoff is cleaned to the empty text and is not unique, and every
\* processed post created exactly at the cutoff that is not banned and has a
\* non-empty canonical key is represented in the report.
C3_TimeWindow ==
    /\ \A k \in Entries : report[k][1] >= started - Horizon
    /\ (idx > 0 /\ tweets[idx].created_at_in_seconds < started - Horizon)
          => (text = <<>> /\ ~unique)
    /\ \A i \in 1..idx :
          ( /\ tweets[i].created_at_in_seconds = started - Horizon
            /\ NotBanned(tweets[i])
            /\ canonical(Normalized(tweets[i])) # <<>> )
          => \E k \in Entries :
                canonical(report[k][2]) = canonical(Normalized(tweets[i]))

C3_Witness ==
    /\ pc = "done"
    /\ \E k \in Entries : report[k][1] = started - Horizon
    /\ \E i \in 1..Len(tweets) :
          /\ tweets[i].created_at_in_seconds < started - Horizon
          /\ NotBanned(tweets[i])

(***************************************************************************)
(* SpecItems: _tweets on every feed of at most MaxFeed tweets whose texts  *)
(* are variants of two items or have no key, inside and outside the time   *)
(* window.                                                                 *)
(***************************************************************************)
ItemTweets ==
    { Tweet(New, <<"A">>), Tweet(Edge, <<"A", ".">>),
      Tweet(New, <<"A", ".", ".">>), Tweet(Edge, <<"\t", "A">>),
      Tweet(New, <<"B">>), Tweet(New, <<".">>), Tweet(Old, <<"A">>) }

ItemsInit == TweetsInit(SeqsUpTo(ItemTweets, MaxFeed), {NoRemove}, {ShortNet})

SpecItems == ItemsInit /\ [][Next]_vars

\* The processed posts that are inside the time window, carry no banned
\* phrase and have a non-empty canonical key.
ProcessedWithKey == PassedWithKey \cap (1 .. idx)

\* A text without its surrounding whitespace and, after that, without one
\* trailing '.'.
Core(t) ==
    LET s == str_strip(t)
    IN IF Len(s) > 0 /\ s[Len(s)] = "." THEN SubSeq(s, 1, Len(s) - 1) ELSE s

\* x and y differ only by surrounding whitespace and at most one trailing '.'
DifferByDot(x, y) ==
    LET a == str_strip(x)
        b == str_strip(y)
    IN a = b \/ a = b \o <<".">> \/ b = a \o <<".">>

\* y is x with two more trailing dots
TwoMoreDots(x, y) == str_strip(y) = str_strip(x) \o <<".", ".">>

\* The report entries of the item of post i, and the first post of that item
ItemEntries(i) ==
    { k \in Entries : Core(report[k][2]) = Core(Normalized(tweets[i])) }

SameItem(i) ==
    { j \in ProcessedWithKey :
         Core(Normalized(tweets[j])) = Core(Normalized(tweets[i])) }

FirstOfItem(i) == CHOOSE f \in SameItem(i) : \A g \in SameItem(i) : f <= g

Items == { Core(Normalized(tweets[i])) : i \in ProcessedWithKey }

\* The entry of post j itself is in the report: its text is listed and no
\* earlier post has that very text.
StoredItself(j) ==
    /\ \E k \in Entries : report[k][2] = Normalized(tweets[j])
    /\ \A h \in ProcessedWithKey :
          h < j => Normalized(tweets[h]) # Normalized(tweets[j])

Listed == { i \in ProcessedWithKey : FirstOfItem(i) = i }

\* The k-th smallest member of a finite set S of numbers
Nth(S, k) == CHOOSE i \in S : Cardinality({ j \in S : j <= i }) = k

\* C16: at every point while _tweets processes a feed, the number of
\* (timestamp, text) entries in the report equals the size of the uniqueness
\* set; once it has returned, unique_count of the trailing summary is the
\* number of posts listed; and the entries are in feed order: the k-th entry
\* is the k-th post of the feed that was stored.
C16_EntriesMatchUniques ==
    /\ Cardinality(Entries) = Cardinality(uniq_text)
    /\ Cardinality(Entries) = uniques
    /\ pc = "done" => Summary[1] = Len(report) - 1
    /\ Cardinality(Listed) = Cardinality(Entries)
    /\ \A k \in Entries :
          /\ report[k][1] = tweets[Nth(Listed, k)].created_at_in_seconds
          /\ report[k][2] = Normalized(tweets[Nth(Listed, k)])

C16_Witness ==
    /\ pc = "loop"
    /\ idx = 3
    /\ Len(report) = 2
    /\ duplicates = 1
    /\ report[1][2] # report[2][2]
    /\ report[1][1] < report[2][1]

\* The feed is ordered newest-first
NewestFirst(feed) ==
    \A i, j \in 1 .. Len(feed) :
       i < j => feed[i].created_at_in_seconds >= feed[j].created_at_in_seconds

\* What the scan that stops at the first out-of-window post has built from
\* the first n posts of the feed.
EarlyStop(n) ==
    tweets_fold_break([report |-> <<>>, uniq_text |-> {}, duplicates |-> 0],
                      SubSeq(tweets, 1, n), remove, timespan, net)

\* C15: for a feed ordered newest-first, scanning the whole feed builds the
\* same report entries, uniqueness set and counters as stopping at the first
\* out-of-window post, after every post and in the summary _tweets returns;
\* and in any feed, processing an out-of-window post changes neither the
\* report, nor the uniqueness set, nor either counter.
C15_WholeScanEqualsEarlyStop ==
    /\ [](NewestFirst(tweets) =>
            /\ SubSeq(report, 1, Cardinality(Entries)) = EarlyStop(idx).report
            /\ uniq_text = EarlyStop(idx).uniq_text
            /\ duplicates = EarlyStop(idx).duplicates
            /\ pc = "done" =>
                  /\ Summary[1] = Cardinality(EarlyStop(Len(tweets)).uniq_text)
                  /\ Summary[2] = EarlyStop(Len(tweets)).duplicates)
    /\ [][ (idx' = idx + 1 /\ ~InWindow(tweets[idx']))
              => /\ report' = report
                 /\ uniq_text' = uniq_text
                 /\ uniques' = uniques
                 /\ duplicates' = duplicates ]_vars

C15_Witness ==
    /\ pc = "done"
    /\ NewestFirst(tweets)
    /\ Len(tweets) = 3
    /\ InWindow(tweets[1])
    /\ ~InWindow(tweets[2])
    /\ ~InWindow(tweets[3])
    /\ Len(report) = 2
    /\ report[1][2] = <<"B">>
    /\ Summary[1] = 1
    /\ Summary[2] = 0

(***************************************************************************)
(* SpecFilter: any sequence of at most MaxCalls is_unique calls on one     *)
(* TweetFilter.                                                            *)
(***************************************************************************)
FilterTexts ==
    { <<"A">>, <<"A", ".">>, <<" ", "A">>, <<"A", ".", ".">>, <<"B">>,
      <<"B", ".", "\n">>, <<".">>, <<>>, <<" ">> }

\* tweet_filter.is_unique(t); idx counts the calls made.
IsUniqueCall(t) ==
    /\ pc = "filter"
    /\ idx < MaxCalls
    /\ LET r == is_unique(uniq_text, duplicates, t)
       IN /\ unique' = r.ret
          /\ uniq_text' = r.uniq_text
          /\ duplicates' = r.duplicates
    /\ text' = t
    /\ idx' = idx + 1
    /\ UNCHANGED <<started, remove, net, tweets, report, pc, eu, rvars>>

FilterInit ==
    /\ started = Horizon + MaxAge
    /\ remove = NoRemove
    /\ net = ShortNet
    /\ tweets = <<>>
    /\ idx = 0
    /\ text = <<>>
    /\ unique = FALSE
    /\ uniq_text = {}
    /\ duplicates = 0
    /\ report = <<>>
    /\ pc = "filter"
    /\ eu = EuIdle
    /\ RunIdle

FilterNext == \E t \in FilterTexts : IsUniqueCall(t)

SpecFilter == FilterInit /\ [][FilterNext]_vars

\* C2: every is_unique call with a non-empty canonical key either finds the
\* key new, returns true and raises the unique count by one with the
\* duplicate count unchanged, or finds it stored, returns false, leaves the
\* unique count unchanged and raises the duplicate count by exactly one; the
\* set of stored keys never shrinks, so true is returned at most once per key.
C2_UniqueOncePerKey ==
    [][ LET key == canonical(text')
        IN /\ uniq_text \subseteq uniq_text'
           /\ unique' => (key # <<>> /\ key \notin uniq_text)
           /\ (key # <<>> /\ key \notin uniq_text)
                 => /\ unique'
                    /\ key \in uniq_text'
                    /\ Cardinality(uniq_text') = Cardinality(uniq_text) + 1
                    /\ duplicates' = duplicates
           /\ (key # <<>> /\ key \in uniq_text)
                 => /\ ~unique'
                    /\ uniq_text' = uniq_text
                    /\ duplicates' = duplicates + 1 ]_vars

C2_Witness ==
    /\ pc = "filter"
    /\ ~unique
    /\ canonical(text) \in uniq_text
    /\ text \notin uniq_text
    /\ duplicates >= 2
    /\ Cardinality(uniq_text) >= 2

\* The canonical key of t is empty: t is empty, only whitespace, or a single
\* '.' with whitespace around it.
EmptyKey(t) == str_strip(t) \in {<<>>, <<".">>}

\* C14: an is_unique call on a text whose canonical key is empty returns
\* false and leaves the uniqueness set, the number of unique texts and the
\* duplicate count unchanged.
C14_EmptyKeyNoEffect ==
    [][ (idx' = idx + 1 /\ EmptyKey(text'))
           => /\ unique' = FALSE
              /\ uniq_text' = uniq_text
              /\ uniques' = uniques
              /\ duplicates' = duplicates ]_vars

C14_Witness ==
    /\ idx >= 3
    /\ text = <<".">>
    /\ ~unique
    /\ uniq_text = {<<"A">>}
    /\ duplicates = 1

(***************************************************************************)
(* SpecUrl: extend_url on redirect chains, one request per step.           *)
(***************************************************************************)
Alpha == <<"a", "b", "c", "d", "e", "f", "g", "h", "i", "j", "k", "l", "m",
           "n", "o", "p">>

\* The k-th URL of the synthetic chain.
Chain(k) == Http \o <<"x", "/", Alpha[k + 1]>>

\* The network in which Chain(k) answers f[k].
NetOf(f) ==
    [u \in {Chain(k) : k \in DOMAIN f} |->
        f[CHOOSE k \in DOMAIN f : Chain(k) = u]]

\* ChainLen redirects in a row, the last URL answering without a Location.
LongChainAnswers ==
    [k \in 0..ChainLen |->
        IF k < ChainLen THEN Redirect(Chain(k + 1)) ELSE NoLocation]

LongChain == NetOf(LongChainAnswers)

\* A redirect cycle through n URLs.
Cycle(n) == NetOf([k \in 0..(n - 1) |-> Redirect(Chain((k + 1) % n))])

\* What a request can answer other than a valid redirect.
Failures ==
    { Raises("ConnectionError"), Raises("ConnectTimeout"),
      Raises("ReadTimeout"), Raises("InvalidURL"), NoLocation,
      Redirect(<<"/", "p">>) }

\* The long chain with the request to Chain(j) answering r instead.
Faulty(j, r) == NetOf([LongChainAnswers EXCEPT ![j] = r])

UrlNets ==
    {LongChain} \cup {Cycle(n) : n \in 1..3}
    \cup {Faulty(j, r) : j \in 0..MaxFault, r \in Failures}

UrlInit ==
    /\ started = Horizon + MaxAge
    /\ remove = NoRemove
    /\ net \in UrlNets
    /\ tweets = <<>>
    /\ idx = 0
    /\ text = <<>>
    /\ unique = FALSE
    /\ uniq_text = {}
    /\ duplicates = 0
    /\ report = <<>>
    /\ pc = "idle"
    /\ \E k \in {0, ChainLen - HopLimit + 1} : eu = extend_url_frame(Chain(k))
    /\ RunIdle

UrlUnchanged == UNCHANGED <<tvars, rvars>>

\* One iteration of `for _ in range(10)`: the request and what follows it,
\* or the end of the loop.
EuRequest ==
    /\ eu.pc = "loop"
    /\ eu' = extend_url_step(eu, net)
    /\ UrlUnchanged

\* An except clause of extend_url.
EuExcept ==
    /\ eu.pc \in {"except_ConnectionError", "except_ReadTimeout",
                  "except_Exception"}
    /\ eu' = extend_url_step(eu, net)
    /\ UrlUnchanged

\* return url
EuReturn ==
    /\ eu.pc = "return"
    /\ eu' = extend_url_step(eu, net)
    /\ UrlUnchanged

UrlNext == EuRequest \/ EuExcept \/ EuReturn

\* extend_url is sequential code and every request ends (timeout=5), so a
\* step that can be taken is eventually taken.
SpecUrl == UrlInit /\ [][UrlNext]_vars /\ WF_vars(UrlNext)

\* C4: on every chain, cyclic or long, extend_url issues at most 10 requests
\* (so follows at most 10 hops) and then returns; on the chain of 12 valid
\* redirects started at its first URL it returns the URL reached at hop 10.
C4_AtMostTenHops ==
    /\ [](eu.i <= 10)
    /\ []((eu.pc = "returned" /\ net = LongChain /\ eu.word = Chain(0))
             => eu.url = Chain(10))
    /\ <>(eu.pc = "returned")

C4_Witness ==
    /\ eu.pc = "returned"
    /\ net = LongChain
    /\ eu.word = Chain(0)
    /\ eu.url = Chain(10)
    /\ eu.i = 10

\* C5: no outcome of a request makes extend_url raise; from the failing
\* request on the URL is not changed any more, so the URL returned is the
\* last one reached, and it is the original token when the first request is
\* the one that fails.
C5_NeverRaises ==
    /\ [](eu.pc # "raised")
    /\ []((eu.i = 1 /\ eu.pc # "loop") => eu.url = eu.word)
    /\ [][(eu.pc # "loop" \/ eu'.pc # "loop") => eu'.url = eu.url]_vars
    /\ <>(eu.pc = "returned")

C5_Witness ==
    /\ eu.pc = "returned"
    /\ eu.url # eu.word
    /\ requests_head(net, eu.url).outcome = "InvalidURL"

(***************************************************************************)
(* SpecClean: _tweets on feeds of one tweet with links, newlines and       *)
(* repeated spaces, that is clean_tweet as a function of the tweet, the    *)
(* filter configuration and the network.                                   *)
(***************************************************************************)
Sp == <<" ">>
Nl == <<"\n">>
ShortM == Http \o <<"t", ".", "c", "o", "/", "m">>
ShortV == Http \o <<"t", ".", "c", "o", "/", "v">>
ShortO == Http \o <<"t", ".", "c", "o", "/", "o">>
\* The photo and video permalinks of tweet 123, and the photo of tweet 999.
OwnPhoto == twitter_com \o <<"u", "/">> \o status_media_suffix(<<"1", "2", "3">>, photo)
OwnVideo == twitter_com \o <<"u", "/">> \o status_media_suffix(<<"1", "2", "3">>, video)
OtherPhoto == twitter_com \o <<"u", "/">> \o status_media_suffix(<<"9", "9", "9">>, photo)

\* Every short link redirects once; the targets answer without a Location.
CleanNet ==
    (ShortA :> Redirect(LongA)) @@ (ShortM :> Redirect(OwnPhoto))
    @@ (ShortV :> Redirect(OwnVideo)) @@ (ShortO :> Redirect(OtherPhoto))

\* No short link can be resolved.
DeadNet ==
    (ShortA :> Raises("ReadTimeout")) @@ (ShortM :> Raises("ConnectionError"))
    @@ (ShortV :> NoLocation) @@ (ShortO :> Raises("InvalidURL"))

Look == <<"l", "o", "o", "k">>

CleanTexts ==
    { Look \o Sp \o ShortM,
      Look \o Sp \o ShortA \o Sp \o ShortM,
      ShortA \o Sp \o ShortV,
      ShortA \o Sp \o ShortM \o Sp \o Look,
      ShortA \o Sp \o ShortO,
      ShortM \o Sp \o ShortM,
      OwnPhoto \o Sp \o Look \o Sp \o OwnPhoto,
      <<"a">> \o Nl \o <<"b">>,
      Look \o Nl \o ShortA,
      ShortA \o Nl \o ShortM,
      <<"a", " ", " ", "b", " ">>,
      <<"R", "T", " ">> \o Look \o Sp \o ShortA \o Sp \o ShortV }

CleanInit ==
    TweetsInit({<<Tweet(ts, t)>> : ts \in {Edge, New}, t \in CleanTexts},
               {NoRemove, SomeRemove}, {CleanNet, DeadNet})

SpecClean == CleanInit /\ [][Next]_vars

\* The tokens of the tweet being cleaned, and the state of clean_tweet's
\* loop before and after its k-th token.
Words(tweet) == str_split(strip_text(tweet.full_text, remove), <<" ">>)

Before(tweet, k) ==
    clean_words(clean_start, tweet, SubSeq(Words(tweet), 1, k - 1), remove, net)

After(tweet, k) == clean_word(Before(tweet, k), tweet, Words(tweet)[k], remove, net)

IsLink(tweet, k) == is_http_link(Words(tweet)[k])

\* The k-th token is a link and nothing was kept for it.
Dropped(tweet, k) ==
    IsLink(tweet, k) /\ After(tweet, k).ret = Before(tweet, k).ret

KeptLinkBefore(tweet, k) ==
    \E j \in 1..(k - 1) : IsLink(tweet, j) /\ ~Dropped(tweet, j)

LastToken(s) == LET w == str_split(s, <<" ">>) IN w[Len(w)]

\* The URL is the tweet's own photo or video permalink on twitter.com.
OwnMedia(tweet, url) ==
    /\ str_startswith(url, twitter_com)
    /\ \E media \in {photo, video} :
          str_endswith(url, status_media_suffix(tweet.id_str, media))

\* C6: the text clean_tweet returns is the kept tokens joined; a link token
\* is dropped only if an earlier link of the post was kept, so the first
\* link is kept even when it resolves to the post's own photo permalink; and
\* a link after a kept link that is the last token of the original text and
\* resolves to the post's own photo or video permalink is dropped.
C6_MediaOnlyAfterKeptLink ==
    (idx > 0 /\ pc # "filter") =>
      LET tweet == tweets[idx]
          n == Len(Words(tweet))
      IN /\ (InWindow(tweet) /\ NotBanned(tweet))
               => text = str_join(<<" ">>, After(tweet, n).ret)
         /\ \A k \in 1..n :
               /\ Dropped(tweet, k) => KeptLinkBefore(tweet, k)
               /\ (IsLink(tweet, k) /\ \A j \in 1..(k - 1) : ~IsLink(tweet, j))
                     => ~Dropped(tweet, k)
               /\ ( /\ IsLink(tweet, k)
                    /\ KeptLinkBefore(tweet, k)
                    /\ Words(tweet)[k] = LastToken(tweet.full_text)
                    /\ OwnMedia(tweet, extend_url(Words(tweet)[k], net)) )
                     => Dropped(tweet, k)

\* A first link resolving to the own photo permalink was kept, and in another
\* run a later, last link resolving to it was dropped.
C6_Witness ==
    /\ idx > 0
    /\ pc = "done"
    /\ LET tweet == tweets[idx]
           n == Len(Words(tweet))
       IN /\ Dropped(tweet, n)
          /\ KeptLinkBefore(tweet, n)
          /\ \E k \in 1..(n - 1) :
                /\ IsLink(tweet, k)
                /\ OwnMedia(tweet, extend_url(Words(tweet)[k], net))
                /\ ~Dropped(tweet, k)
          /\ Len(report) = 2

\* The text clean_tweet would return had the newlines been replaced by one
\* space each.
NewlineAsSpace(tweet) ==
    LET spaced == [tweet EXCEPT !.full_text = str_replace(tweet.full_text, Nl, Sp)]
    IN Normalized(spaced)

\* C7 as claimed: the text returned for a post that is kept is the text
\* normalized with every newline replaced by a single space, so words that
\* only a newline separates stay separate tokens.
C7_NewlineBecomesSpace ==
    (idx > 0 /\ pc # "filter" /\ InWindow(tweets[idx]) /\ NotBanned(tweets[idx]))
        => text = NewlineAsSpace(tweets[idx])

(***************************************************************************)
(* SpecPage: _tweets on feeds of max_items or max_items - 1 tweets, all    *)
(* alike but for at most one, with the summary _twitter_user_summary       *)
(* renders for the source.                                                 *)
(***************************************************************************)
PageOdd ==
    { Tweet(Old, <<"B">>), Tweet(New, <<"a", "d", " ", "B">>),
      Tweet(New, <<".">>), Tweet(New, <<"B">>) }

\* len tweets "A" inside the window, the k-th replaced by odd (k = 0: none).
PageFeed(len, k, odd) ==
    [i \in 1..len |-> IF i = k THEN odd ELSE Tweet(New, <<"A">>)]

PageFeeds ==
    { PageFeed(len, k, odd) :
        len \in {max_items - 1, max_items}, k \in {0, 1, max_items - 1},
        odd \in PageOdd }

PageInit == TweetsInit(PageFeeds, {SomeRemove}, {ShortNet})

SpecPage == PageInit /\ [][Next]_vars

\* The summary lines rendered for the source carry the truncation note.
HasMaxNote(found, skipped) ==
    \E k \in 1..Len(twitter_user_summary(found, skipped)) :
        twitter_user_summary(found, skipped)[k][1] = "Max number of tweets fetched"

\* C9 as claimed: for a source that is reported (it has a unique post), the
\* summary carries the note 'Max number of tweets fetched' exactly when the
\* number of posts fetched for the source is the maximum page size.
C9_NoteIffMaxFetched ==
    (pc = "done" /\ Summary[1] > 0)
        => (HasMaxNote(Summary[1], Summary[2]) <=> Len(tweets) = max_items)

(***************************************************************************)
(* Report rendering: email_heading, twitter_user_heading, tweet_message    *)
(* and TwitterBot._email_text.  A text is a sequence of lines, a line a    *)
(* tuple of its fixed wording and the values printed into it.              *)
(***************************************************************************)
\* The user names of the configuration, in alphabetical order.
UserNames == <<"alice", "bob", "carol">>

UserRank(user) == CHOOSE i \in 1..Len(UserNames) : UserNames[i] = user

\* users.sort()
sort_users(users) == SortSeq(users, LAMBDA a, b : UserRank(a) < UserRank(b))

email_heading(users) ==
    IF Len(users) > 1
    THEN [users |-> sort_users(users),
          text |-> << <<"Twitter report on: ", sort_users(users)>>, <<"">> >>]
    ELSE [users |-> users, text |-> <<>>]

twitter_user_heading(user) ==
    << <<"%s - https://www.twitter.com/%s:", user>>, <<"*", user>> >>

tweet_message(tstamp, t) == << <<"asctime", tstamp>>, <<"     ", t>> >>

RECURSIVE tweet_messages(_)
tweet_messages(entries) ==
    IF entries = <<>> THEN <<>>
    ELSE tweet_message(Head(entries)[1], Head(entries)[2])
         \o tweet_messages(Tail(entries))

\* found, skipped = report[user].pop(-1)
Found(rep) == rep[Len(rep)][1]
Skipped(rep) == rep[Len(rep)][2]

\* email_user without `if not found: continue`: a source without a unique
\* post gets its heading and summary too.
email_user_always(user, rep) ==
    twitter_user_heading(user)
    \o tweet_messages(SubSeq(rep, 1, Len(rep) - 1))
    \o << <<"summary", twitter_user_summary(Found(rep), Skipped(rep))>>,
          <<"">> >>

\* The body of `for user in users` of _email_text: the lines added for one
\* user, whose report is rep.
email_user(user, rep) ==
    IF Found(rep) = 0 THEN <<>>
    ELSE twitter_user_heading(user)
         \o tweet_messages(SubSeq(rep, 1, Len(rep) - 1))
         \o << <<"summary", twitter_user_summary(Found(rep), Skipped(rep))>>,
               <<"">> >>

RECURSIVE email_users(_, _)
email_users(users, rep) ==
    IF users = <<>> THEN <<>>
    ELSE email_user(Head(users), rep[Head(users)])
         \o email_users(Tail(users), rep)

\* _email_text(report): keys are the users in the order of insertion, rep
\* maps each to its report.  The result is None or a text.
email_text(keys, rep) ==
    LET h == email_heading(keys)
        tweets_found == \E k \in 1..Len(keys) : Found(rep[keys[k]]) # 0
    IN IF ~tweets_found THEN [state |-> "None", text |-> <<>>]
       ELSE [state |-> "text",
             text |-> h.text \o email_users(h.users, rep)
                      \o << <<"Generated by jylitalo/TwitterBot">> >>]

(***************************************************************************)
(* _tweets as a function of the feed.                                      *)
(***************************************************************************)
RECURSIVE tweets_fold(_, _, _, _, _)
tweets_fold(st, feed, rm, ts, n) ==
    IF feed = <<>> THEN st
    ELSE tweets_fold(tweets_step(st, Head(feed), rm, ts, n),
                     Tail(feed), rm, ts, n)

tweets_report(feed, rm, ts, n) ==
    tweets_summary(tweets_fold([report |-> <<>>, uniq_text |-> {},
                                duplicates |-> 0], feed, rm, ts, n))

(***************************************************************************)
(* SpecRun: make_reports and one process per topic running _handle_topic.  *)
(***************************************************************************)
\* topics(self._cf.sections()): the sections but 'api', sorted.
Topics == <<"news", "tech">>
TopicSet == {Topics[k] : k \in 1..Len(Topics)}

\* self._cf.get(topic, 'users').split(',')
users_of(topic) == IF topic = "news" THEN <<"bob", "alice">> ELSE <<"carol">>

filters(topic) == IF topic = "news" THEN SomeRemove ELSE NoRemove

\* The feeds GetUserTimeline may return to a topic process.
RunFeeds == SeqsUpTo({Tweet(New, <<"A">>), Tweet(Old, <<"B">>)}, MaxFeed)

Unset == [state |-> "unset", text |-> <<>>]

\* The report dict of _handle_topic: creport[topic] holds the reports of the
\* users fetched so far, in the order of users_of(topic).
report_keys(topic) == SubSeq(users_of(topic), 1, Len(creport[topic]))

report_dict(topic) ==
    [user \in {users_of(topic)[k] : k \in 1..Len(creport[topic])} |->
        creport[topic][CHOOSE k \in 1..Len(creport[topic]) :
                          users_of(topic)[k] = user]]

RunInit ==
    /\ started = Horizon + MaxAge
    /\ remove = NoRemove
    /\ net = ShortNet
    /\ tweets = <<>>
    /\ idx = 0
    /\ text = <<>>
    /\ unique = FALSE
    /\ uniq_text = {}
    /\ duplicates = 0
    /\ report = <<>>
    /\ pc = "idle"
    /\ eu = EuIdle
    /\ ppc = "start"
    /\ ptopic = 0
    /\ pids = <<>>
    /\ pjoin = 0
    /\ proc = [t \in TopicSet |-> "none"]
    /\ cpc = [t \in TopicSet |-> "idle"]
    /\ creport = [t \in TopicSet |-> <<>>]
    /\ cmsg = [t \in TopicSet |-> Unset]
    /\ sends = [t \in TopicSet |-> <<>>]

\* StartTopic without the try/except around Process() and start(): the
\* exception of a failed start leaves make_reports.
StartTopic_abort ==
    /\ ppc = "start"
    /\ ptopic < Len(Topics)
    /\ LET topic == Topics[ptopic + 1]
       IN \/ /\ ppc' = "done"
             /\ UNCHANGED <<pids, proc, cpc>>
          \/ /\ pids' = Append(pids, topic)
             /\ proc' = [proc EXCEPT ![topic] = "unstarted"]
             /\ ppc' = "done"
             /\ UNCHANGED cpc
          \/ /\ pids' = Append(pids, topic)
             /\ proc' = [proc EXCEPT ![topic] = "running"]
             /\ cpc' = [cpc EXCEPT ![topic] = "tweets"]
             /\ UNCHANGED ppc
    /\ ptopic' = ptopic + 1
    /\ UNCHANGED <<tvars, eu, pjoin, creport, cmsg, sends>>

\* One iteration of `for topic in topics(...)`: Process(...) raises, or the
\* process joins pids and start() raises, or the process is started.
StartTopic ==
    /\ ppc = "start"
    /\ ptopic < Len(Topics)
    /\ LET topic == Topics[ptopic + 1]
       IN \/ UNCHANGED <<pids, proc, cpc>>
          \/ /\ pids' = Append(pids, topic)
             /\ proc' = [proc EXCEPT ![topic] = "unstarted"]
             /\ UNCHANGED cpc
          \/ /\ pids' = Append(pids, topic)
             /\ proc' = [proc EXCEPT ![topic] = "running"]
             /\ cpc' = [cpc EXCEPT ![topic] = "tweets"]
    /\ ptopic' = ptopic + 1
    /\ UNCHANGED <<tvars, eu, ppc, pjoin, creport, cmsg, sends>>

\* The start loop is over.
StartDone ==
    /\ ppc = "start"
    /\ ptopic = Len(Topics)
    /\ ppc' = "join"
    /\ UNCHANGED <<tvars, eu, ptopic, pids, pjoin, proc, cpc, creport, cmsg, sends>>

\* The join loop not waiting for a process that is still running (as with
\* join(timeout) or a join that is skipped).
JoinTopic_no_wait ==
    /\ ppc = "join"
    /\ pjoin < Len(pids)
    /\ pjoin' = pjoin + 1
    /\ UNCHANGED <<tvars, eu, ppc, ptopic, pids, proc, cpc, creport, cmsg, sends>>

\* One iteration of `for pid in pids`: join() of a process that was never
\* started raises at once (caught and logged); join() of a started process
\* returns when the process has terminated.
JoinTopic ==
    /\ ppc = "join"
    /\ pjoin < Len(pids)
    /\ proc[pids[pjoin + 1]] \in {"unstarted", "terminated"}
    /\ pjoin' = pjoin + 1
    /\ UNCHANGED <<tvars, eu, ppc, ptopic, pids, proc, cpc, creport, cmsg, sends>>

\* The join loop is over: make_reports returns.
JoinDone ==
    /\ ppc = "join"
    /\ pjoin = Len(pids)
    /\ ppc' = "done"
    /\ UNCHANGED <<tvars, eu, ptopic, pids, pjoin, proc, cpc, creport, cmsg, sends>>

\* HandleTweets with the failure of one user's fetch caught inside the loop:
\* the topic goes on to the mail with the reports it has.
HandleTweets_skip_failed(topic) ==
    /\ cpc[topic] = "tweets"
    /\ \/ \E feed \in RunFeeds :
            /\ creport' = [creport EXCEPT ![topic] =
                   Append(@, tweets_report(feed, filters(topic), timespan, net))]
            /\ cpc' = [cpc EXCEPT ![topic] =
                   IF Len(creport[topic]) + 1 = Len(users_of(topic))
                   THEN "email" ELSE "tweets"]
       \/ /\ cpc' = [cpc EXCEPT ![topic] = "email"]
          /\ UNCHANGED creport
    /\ UNCHANGED <<tvars, eu, ppc, ptopic, pids, pjoin, proc, cmsg, sends>>

\* report[twitter_user] = self._tweets(twitter_user, remove) for the next
\* user of the topic: GetUserTimeline returns a feed or raises.
HandleTweets(topic) ==
    /\ cpc[topic] = "tweets"
    /\ \/ \E feed \in RunFeeds :
            /\ creport' = [creport EXCEPT ![topic] =
                   Append(@, tweets_report(feed, filters(topic), timespan, net))]
            /\ cpc' = [cpc EXCEPT ![topic] =
                   IF Len(creport[topic]) + 1 = Len(users_of(topic))
                   THEN "email" ELSE "tweets"]
       \/ /\ cpc' = [cpc EXCEPT ![topic] = "except"]
          /\ UNCHANGED creport
    /\ UNCHANGED <<tvars, eu, ppc, ptopic, pids, pjoin, proc, cmsg, sends>>

\* msg = self._email_text(report); if msg: ...
HandleEmail(topic) ==
    /\ cpc[topic] = "email"
    /\ LET msg == email_text(report_keys(topic), report_dict(topic))
       IN /\ cmsg' = [cmsg EXCEPT ![topic] = msg]
          /\ cpc' = [cpc EXCEPT ![topic] =
                 IF msg.state = "text" THEN "send" ELSE "log"]
    /\ UNCHANGED <<tvars, eu, ppc, ptopic, pids, pjoin, proc, creport, sends>>

\* self._send_email(sender, topic, msg): the mail is sent or smtplib raises.
HandleSend(topic) ==
    /\ cpc[topic] = "send"
    /\ \E outcome \in {"sent", "SMTPException"} :
          /\ sends' = [sends EXCEPT ![topic] = Append(@, <<outcome, cmsg[topic].text>>)]
          /\ cpc' = [cpc EXCEPT ![topic] =
                 IF outcome = "sent" THEN "log" ELSE "except"]
    /\ UNCHANGED <<tvars, eu, ppc, ptopic, pids, pjoin, proc, creport, cmsg>>

\* log("%s topic took ..."): _handle_topic returns and the process ends.
HandleLog(topic) ==
    /\ cpc[topic] = "log"
    /\ cpc' = [cpc EXCEPT ![topic] = "finished"]
    /\ proc' = [proc EXCEPT ![topic] = "terminated"]
    /\ UNCHANGED <<tvars, eu, ppc, ptopic, pids, pjoin, creport, cmsg, sends>>

\* except Exception: log_error_with_stack(...); the process ends.
HandleExcept(topic) ==
    /\ cpc[topic] = "except"
    /\ cpc' = [cpc EXCEPT ![topic] = "failed"]
    /\ proc' = [proc EXCEPT ![topic] = "terminated"]
    /\ UNCHANGED <<tvars, eu, ppc, ptopic, pids, pjoin, creport, cmsg, sends>>

HandleTopic(topic) ==
    \/ HandleTweets(topic)
    \/ HandleEmail(topic)
    \/ HandleSend(topic)
    \/ HandleLog(topic)
    \/ HandleExcept(topic)

RunNext ==
    \/ StartTopic
    \/ StartDone
    \/ JoinTopic
    \/ JoinDone
    \/ \E topic \in TopicSet : HandleTopic(topic)

SpecRun == RunInit /\ [][RunNext]_vars

\* The text has a section (a heading line) for the user.
HasSection(lines, user) ==
    \E k \in 1..Len(lines) :
        /\ lines[k][1] = "%s - https://www.twitter.com/%s:"
        /\ lines[k][2] = user

\* C8: once _email_text has run for a topic, the digest has a section for a
\* source exactly when that source has a unique post, the result is None
\* exactly when no source of the topic has one, _send_email is not invoked
\* unless the result is a text, and what it is given is that text.
C8_SectionsAndSentinel ==
    \A topic \in TopicSet :
        /\ cmsg[topic].state # "unset" =>
              /\ \A k \in 1..Len(users_of(topic)) :
                    HasSection(cmsg[topic].text, users_of(topic)[k])
                        <=> Found(creport[topic][k]) > 0
              /\ cmsg[topic].state = "None"
                    <=> \A k \in 1..Len(users_of(topic)) :
                            Found(creport[topic][k]) = 0
        /\ cmsg[topic].state # "text" => sends[topic] = <<>>
        /\ \A k \in 1..Len(sends[topic]) : sends[topic][k][2] = cmsg[topic].text

\* One topic sent a digest with a section for one of its two sources only,
\* the other topic found nothing and sent nothing.
C8_Witness ==
    /\ cpc["news"] = "finished"
    /\ Len(sends["news"]) = 1
    /\ HasSection(cmsg["news"].text, "alice")
    /\ ~HasSection(cmsg["news"].text, "bob")
    /\ cpc["tech"] = "finished"
    /\ cmsg["tech"].state = "None"
    /\ sends["tech"] = <<>>

\* C10: when make_reports has returned, no topic process is running: each
\* was never started or has terminated, normally or after a failure.
C10_ReturnsAfterAllTerminated ==
    ppc = "done" => \A topic \in TopicSet : proc[topic] # "running"

\* make_reports has returned after one topic failed and the other finished.
C10_Witness ==
    /\ ppc = "done"
    /\ cpc["news"] = "failed"
    /\ proc["news"] = "terminated"
    /\ cpc["tech"] = "finished"
    /\ proc["tech"] = "terminated"
    /\ Len(sends["tech"]) = 1

\* The fetch of one of the topic's users has failed: the topic is in its
\* except clause, or past it, with the reports of only some of its users.
FetchFailed(topic) ==
    /\ cpc[topic] \in {"except", "failed"}
    /\ Len(creport[topic]) < Len(users_of(topic))

\* C12: a topic dispatches a digest built from the complete reports of all
\* its sources or nothing: _send_email is called at most once, only when the
\* report of every user of the topic has been fetched, and with the text
\* _email_text builds from all of them; once the fetch of any one user has
\* failed, _send_email is never called for the topic, whatever was fetched
\* before.
C12_CompleteDigestOrNothing ==
    /\ [](\A topic \in TopicSet :
            sends[topic] # <<>> =>
               /\ Len(sends[topic]) = 1
               /\ Len(creport[topic]) = Len(users_of(topic))
               /\ sends[topic][1][2] =
                     email_text(users_of(topic), report_dict(topic)).text)
    /\ [][ \A topic \in TopicSet :
              FetchFailed(topic) => (sends'[topic] = <<>> /\ cpc'[topic] # "send")
         ]_vars

C12_Witness ==
    /\ proc["news"] = "terminated"
    /\ cpc["news"] = "failed"
    /\ Len(creport["news"]) = 1
    /\ Len(creport["news"][1]) = 2
    /\ sends["news"] = <<>>
    /\ sends["tech"] # <<>>

\* SpecRun with every process scheduled: make_reports takes its next step
\* when it can, and so does every started topic process.
SpecRunFair ==
    /\ SpecRun
    /\ WF_vars(StartTopic)
    /\ WF_vars(StartDone)
    /\ WF_vars(JoinTopic)
    /\ WF_vars(JoinDone)
    /\ \A topic \in TopicSet : WF_vars(HandleTopic(topic))

\* The process of the next topic of the start loop is started.
Started ==
    /\ StartTopic
    /\ proc'[Topics[ptopic']] = "running"

\* The topic's mail is sent.
Sent(topic) ==
    /\ HandleSend(topic)
    /\ sends'[topic][Len(sends'[topic])][1] = "sent"

\* C11: a failure in one topic (fetch error, dispatch error, failure to start
\* or to join its process) never keeps a sibling topic from being started,
\* running to completion and dispatching its own report: whatever happened
\* to the other topics, the start loop can start the next topic and reaches
\* every topic; a started topic process can always take its next step, can
\* send its mail when it has one, and terminates; a step of one topic never
\* changes the reports, the text or the mails of another; and make_reports
\* returns.
C11_SiblingsIndependent ==
    /\ [](ppc # "start" => ptopic = Len(Topics))
    /\ []((ppc = "start" /\ ptopic < Len(Topics)) => ENABLED Started)
    /\ [](\A topic \in TopicSet :
            /\ proc[topic] = "running" => ENABLED HandleTopic(topic)
            /\ cpc[topic] = "send" => ENABLED Sent(topic))
    /\ [][ \A s, t \in TopicSet :
              (s # t /\ cpc'[s] # cpc[s])
                 => /\ cpc'[t] = cpc[t]
                    /\ proc'[t] = proc[t]
                    /\ creport'[t] = creport[t]
                    /\ cmsg'[t] = cmsg[t]
                    /\ sends'[t] = sends[t] ]_vars
    /\ \A topic \in TopicSet :
          (proc[topic] = "running") ~> (proc[topic] = "terminated")
    /\ <>(ppc = "done")

\* make_reports has returned; the first topic could not be started and its
\* join raised, the second one ran to its end and sent its mail.
C11_Witness ==
    /\ ppc = "done"
    /\ pids = Topics
    /\ proc["news"] = "unstarted"
    /\ cpc["news"] = "idle"
    /\ proc["tech"] = "terminated"
    /\ cpc["tech"] = "finished"
    /\ Len(sends["tech"]) = 1
    /\ sends["tech"][1][1] = "sent"

====
